---- MODULE Spec2Model ----
(***************************************************************************)
(* Model of the vector store of genai-vectors-py.                          *)
(*                                                                         *)
(* The repository carries three storage engines behind the same contract: *)
(*   - the staged-slice indexer over the object store                      *)
(*     (src/app/index/indexer.py, src/app/storage/s3_backend.py),          *)
(*   - the in-memory IndexManager (src/app/index/manager.py),              *)
(*   - the Lance table engine used by the HTTP surfaces                    *)
(*     (src/app/lance/*.py, src/app/api.py, src/app/main.py).              *)
(* The variable engine selects the one a behaviour runs; the state of the  *)
(* other engines stays at its initial value.                               *)
(***************************************************************************)
EXTENDS Integers, Sequences, FiniteSets, TLC

VARIABLES
    engine,      \* "indexer" | "manager" | "lance": the engine of this run
    now,         \* indexer: wall clock in milliseconds (time.time()*1000)
    staged,      \* indexer: objects under staged/<index>/, in key order
    idmap,       \* indexer: [present, rows] the object indexes/<index>/idmap
    manifest,    \* indexer: [present, algo, vectors] manifest.json
    blobs,       \* indexer: ext -> [present, labels] index.hnsw / index.faiss
    mgr,         \* manager: the fields of one IndexManager object
    bucket,      \* lance: the vector bucket exists
    configs,     \* lance: index name -> indexes/<index>/_index_config.json
    tables,      \* lance: table name -> the Lance table
    fq,          \* filter check: the filter tree
    ftab,        \* filter check: the table it is applied to
    fres,        \* filter check: the rows each path selected
    build,       \* indexer: the position and locals of a process_new_slices call in progress
    reader,      \* indexer: the position and locals of a search call in progress
    rival,       \* indexer: a second process_new_slices call in progress
    upserts,     \* lance: request -> the position and locals of an upsert_vectors call
    lastWrite,   \* history: key -> payload of the last completed write
    liveKeys,    \* history: keys written and not deleted since
    last         \* history: the operation that produced this state

ixvars == <<now, staged, idmap, manifest, blobs>>
lancevars == <<bucket, configs, tables>>
filtervars == <<fq, ftab, fres>>
procvars == <<build, reader, rival, upserts>>
vars == <<engine, now, staged, idmap, manifest, blobs, mgr, bucket, configs, tables,
          fq, ftab, fres, build, reader, rival, upserts, lastWrite, liveKeys, last>>

----------------------------------------------------------------------------
(* Bounds of the model *)

MaxRows   == 2   \* rows of an id map / ids of a manager
MaxSlice  == 2   \* rows of one write batch
MaxStaged == 2   \* staged slices awaiting a build
MaxTime   == 1   \* clock ticks
MaxTableRows == 2   \* rows of a Lance table before the last write
MaxFailures == 1    \* builds that stop before their last step

(* Parameters of the index *)
Dim           == 2          \* dim
Algorithm     == "hybrid"   \* algorithm
HnswThreshold == 2          \* hnsw_threshold

----------------------------------------------------------------------------
(* Values *)

Keys == {"a", "b"}

Absent == [t |-> "absent"]           \* key not in the dict
Null   == [t |-> "null"]             \* Python None / JSON null / SQL NULL
VStr(s) == [t |-> "str", s |-> s]    \* s: the characters of the string
VInt(n) == [t |-> "int", n |-> n]
VBool(b) == [t |-> "bool", b |-> b]

MetaKeys == {"cat", "score"}
MdEmpty == [cat |-> Absent, score |-> Absent]
MdCatX  == [cat |-> VStr(<<"x">>), score |-> VInt(7)]
MdCat7  == [cat |-> VInt(7), score |-> Absent]

BadVecs  == {<<1>>}

\* what a caller can put in one row of a write: vector and metadata
Payloads == {[vec |-> <<1, 0>>, meta |-> MdEmpty], [vec |-> <<0, 1>>, meta |-> MdCatX]}
BadPayloads == {[vec |-> v, meta |-> MdEmpty] : v \in BadVecs}

InputRows(P) == {[key |-> k, vec |-> p.vec, meta |-> p.meta] : k \in Keys, p \in P}

SeqsUpTo(S, n) == UNION {[1..m -> S] : m \in 1..n}

Batches(P) == SeqsUpTo(InputRows(P), MaxSlice)

KeyLists == {<<"a">>, <<"b">>, <<"a", "b">>}

NoWrite == [vec |-> <<>>, meta |-> MdEmpty]

RECURSIVE SumSeq(_)
SumSeq(s) == IF s = <<>> THEN 0 ELSE Head(s) + SumSeq(Tail(s))

RECURSIVE Concat(_)
Concat(ss) == IF ss = <<>> THEN <<>> ELSE Head(ss) \o Concat(Tail(ss))

Range(f) == {f[i] : i \in DOMAIN f}

Max(S) == CHOOSE x \in S : \A y \in S : y <= x

\* json.dumps / json.loads of a metadata object (slices.py:16, indexer.py:205)
JsonDumps(md) == [t |-> "json", doc |-> md]
JsonLoads(s) == s.doc

----------------------------------------------------------------------------
(* Object store layout and slices *)

\* S3Storage.staged_path: the slice key carries the millisecond clock
staged_path(ts) == ts

\* rows_to_parquet_bytes: key, vec, meta (json string)
rows_to_parquet_bytes(batch) ==
    [i \in 1..Len(batch) |->
        [key |-> batch[i].key, vec |-> batch[i].vec, meta |-> JsonDumps(batch[i].meta)]]

\* put_object on staged/<index>/slice-<ts>: a second put of one key replaces the object
PutStaged(objs, ts, body) ==
    IF \E i \in 1..Len(objs) : objs[i].ts = ts
    THEN [i \in 1..Len(objs) |-> IF objs[i].ts = ts THEN [ts |-> ts, rows |-> body] ELSE objs[i]]
    ELSE Append(objs, [ts |-> ts, rows |-> body])

\* _load_slice for every staged key in listing order, concatenated (indexer.py:112-117)
AllStagedRows(objs) == Concat([i \in 1..Len(objs) |-> objs[i].rows])

StagedRowCount(objs) == SumSeq([i \in 1..Len(objs) |-> Len(objs[i].rows)])

----------------------------------------------------------------------------
(* ID map *)

NoIdmap == [present |-> FALSE, rows |-> <<>>]

\* _load_idmap: None when the object is absent
NumRows(tbl) == Len(tbl.rows)

\* a variant that numbers the new rows from the count of alive rows, so the id of a
\* tombstoned row is handed out again
AppendReusingIds(tbl, new) ==
    LET start_id == IF ~tbl.present THEN 0
                    ELSE Cardinality({i \in 1..Len(tbl.rows) : tbl.rows[i].alive})
        new_tbl == [i \in 1..Len(new) |->
                      [id |-> start_id + i - 1, key |-> new[i].key, vec |-> new[i].vec,
                       meta |-> new[i].meta, alive |-> TRUE]]
    IN [present |-> TRUE, rows |-> (IF ~tbl.present THEN new_tbl ELSE tbl.rows \o new_tbl)]

\* _append_to_idmap
_append_to_idmap(tbl, new) ==
    LET start_id == IF ~tbl.present THEN 0 ELSE NumRows(tbl)
        new_tbl == [i \in 1..Len(new) |->
                      [id |-> start_id + i - 1, key |-> new[i].key, vec |-> new[i].vec,
                       meta |-> new[i].meta, alive |-> TRUE]]
    IN [present |-> TRUE, rows |-> (IF ~tbl.present THEN new_tbl ELSE tbl.rows \o new_tbl)]

\* k2i = {k: i for i, k in enumerate(keys)}: the last position of a key, -1 when absent
K2I(tbl, k) ==
    LET pos == {i \in 1..NumRows(tbl) : tbl.rows[i].key = k}
    IN IF pos = {} THEN -1 ELSE Max(pos) - 1

CountAlive(tbl) == Cardinality({i \in 1..NumRows(tbl) : tbl.rows[i].alive})

\* get_vectors_by_ids: positional lookup keys[i], vecs[i], metas[i], alive[i]
get_vectors_by_ids(tbl, ids) ==
    IF ~tbl.present THEN <<>>
    ELSE LET ok == SelectSeq(ids, LAMBDA i : i >= 0 /\ i < NumRows(tbl) /\ tbl.rows[i + 1].alive)
         IN [n \in 1..Len(ok) |->
               [Key |-> tbl.rows[ok[n] + 1].key, Data |-> tbl.rows[ok[n] + 1].vec,
                Metadata |-> JsonLoads(tbl.rows[ok[n] + 1].meta)]]

\* get_vectors_by_keys
get_vectors_by_keys(tbl, keys) ==
    IF ~tbl.present THEN <<>>
    ELSE LET ids == [n \in 1..Len(keys) |-> K2I(tbl, keys[n])]
         IN get_vectors_by_ids(tbl, SelectSeq(ids, LAMBDA i : i >= 0))

\* a variant of delete_by_keys that drops the rows it tombstones
DeleteDroppingRows(tbl, keys) ==
    LET to_kill == {K2I(tbl, keys[n]) : n \in {m \in 1..Len(keys) : K2I(tbl, keys[m]) >= 0}}
    IN IF ~tbl.present \/ to_kill = {} THEN tbl
       ELSE [tbl EXCEPT !.rows = SelectSeq(tbl.rows, LAMBDA r : r.id \notin to_kill)]

\* delete_by_keys: the id map it writes back (unchanged when nothing matches)
delete_by_keys(tbl, keys) ==
    LET to_kill == {K2I(tbl, keys[n]) : n \in {m \in 1..Len(keys) : K2I(tbl, keys[m]) >= 0}}
    IN IF ~tbl.present \/ to_kill = {} THEN tbl
       ELSE [tbl EXCEPT !.rows = [i \in 1..NumRows(tbl) |->
                IF (i - 1) \in to_kill THEN [tbl.rows[i] EXCEPT !.alive = FALSE] ELSE tbl.rows[i]]]

\* list_vectors(max_results, next_token): the rows of one page
list_vectors(tbl, max_results, start) ==
    IF ~tbl.present \/ NumRows(tbl) = 0 THEN <<>>
    ELSE LET end == IF NumRows(tbl) < start + max_results THEN NumRows(tbl) ELSE start + max_results
             page == SubSeq(tbl.rows, start + 1, end)
             live == SelectSeq(page, LAMBDA r : r.alive)
         IN [n \in 1..Len(live) |-> [Key |-> live[n].key, Metadata |-> JsonLoads(live[n].meta)]]

\* search: the ids a query can return. The backend returns labels of the blob the
\* manifest names; the ranking is the backend's, so any label may be among the top K.
search(man, tbl, bl) ==
    IF ~tbl.present \/ NumRows(tbl) = 0 THEN {}
    ELSE LET ext == IF man.present /\ man.algo = "hnsw_flat" THEN "hnsw" ELSE "faiss"
             ids == IF bl[ext].present THEN bl[ext].labels ELSE {}
         IN {i \in ids : i >= 0 /\ i < NumRows(tbl) /\ tbl.rows[i + 1].alive}

\* the keys of the rows a query returns (ids joined to the id map)
QueryKeys(man, tbl, bl) == {tbl.rows[i + 1].key : i \in search(man, tbl, bl)}

ListedKeys(tbl) == LET l == list_vectors(tbl, MaxRows + 1, 0) IN {l[n].Key : n \in 1..Len(l)}

----------------------------------------------------------------------------
(* Indexer operations *)

NoManifest == [present |-> FALSE, algo |-> "none", vectors |-> 0]
NoBlob == [present |-> FALSE, labels |-> {}]

\* history of writes: the last occurrence of a key in a batch is its last write
LastOcc(batch, k) ==
    CHOOSE i \in 1..Len(batch) : batch[i].key = k /\ \A j \in (i + 1)..Len(batch) : batch[j].key # k
Written(batch) == {batch[i].key : i \in 1..Len(batch)}
RecordWrites(lw, batch) ==
    [k \in Keys |-> IF k \in Written(batch)
                    THEN [vec |-> batch[LastOcc(batch, k)].vec, meta |-> batch[LastOcc(batch, k)].meta]
                    ELSE lw[k]]

\* the clock advances
Tick ==
    /\ engine = "indexer"
    /\ now < MaxTime
    /\ now' = now + 1
    /\ last' = [op |-> "tick"]
    /\ UNCHANGED <<engine, procvars, staged, idmap, manifest, blobs, mgr, lancevars, filtervars, lastWrite, liveKeys>>

\* S3Storage.write_slice
write_slice(batch) ==
    /\ engine = "indexer"
    /\ Len(staged) < MaxStaged \/ \E i \in 1..Len(staged) : staged[i].ts = staged_path(now)
    /\ NumRows(idmap) + StagedRowCount(staged) + Len(batch) <= MaxRows
    /\ staged' = PutStaged(staged, staged_path(now), rows_to_parquet_bytes(batch))
    /\ lastWrite' = RecordWrites(lastWrite, batch)
    /\ liveKeys' = liveKeys \cup Written(batch)
    /\ last' = [op |-> "write"]
    /\ UNCHANGED <<engine, procvars, now, idmap, manifest, blobs, mgr, lancevars, filtervars>>

\* a variant of the policy that still picks the graph at the threshold itself
UseHnswInclusive(algorithm, total, hnsw_threshold) ==
    (algorithm = "hnsw_flat") \/ (algorithm = "hybrid" /\ total <= hnsw_threshold)

\* use_hnsw of process_new_slices (indexer.py:127)
use_hnsw(algorithm, total, hnsw_threshold) ==
    (algorithm = "hnsw_flat") \/ (algorithm = "hybrid" /\ total < hnsw_threshold)

\* the name of the algorithm a build records and the extension of the blob it stores
AlgoOf(hnsw) == IF hnsw THEN "hnsw_flat" ELSE "ivfpq"
ExtOf(hnsw) == IF hnsw THEN "hnsw" ELSE "faiss"

\* the labels of the backend built from an id map: X and ids are all its rows
BuiltLabels(tbl) == {tbl.rows[i].id : i \in 1..NumRows(tbl)}

\* process_new_slices, run to completion. With nothing staged it returns 0 and
\* changes nothing, so the action is the path past the early return.
process_new_slices ==
    /\ engine = "indexer"
    /\ staged # <<>>
    /\ LET tbl == _append_to_idmap(idmap, AllStagedRows(staged))
           total == NumRows(tbl)
           ids == BuiltLabels(tbl)
           hnsw == use_hnsw(Algorithm, total, HnswThreshold)
           algo == AlgoOf(hnsw)
           ext == ExtOf(hnsw)
       IN /\ idmap' = tbl
          /\ blobs' = [blobs EXCEPT ![ext] = [present |-> TRUE, labels |-> ids]]
          /\ manifest' = [present |-> TRUE, algo |-> algo, vectors |-> total]
    /\ staged' = <<>>
    /\ last' = [op |-> "build", start |-> NumRows(idmap), applied |-> Written(AllStagedRows(staged))]
    /\ UNCHANGED <<engine, procvars, now, mgr, lancevars, filtervars, lastWrite, liveKeys>>

\* no process_new_slices call and no search call is in progress
BuildIdle == [pc |-> 0, tbl |-> NoIdmap, listed |-> <<>>, man0 |-> NoManifest, puts |-> {},
              base |-> NoIdmap, retry |-> FALSE, failures |-> 0]
ReaderIdle == [pc |-> "idle", man |-> NoManifest, tbl |-> NoIdmap]
RivalIdle == [pc |-> 0, tbl |-> NoIdmap]

\* two PutVectors requests, and no upsert_vectors call in progress
Requests == {1, 2}
UpsertIdle == [pc |-> "idle", vectors |-> <<>>, existing_fields |-> {}]

(* process_new_slices and search call by call: each action is one call to the object
   store, so that calls of a build, of a search and of a writer interleave *)

\* a variant of the order of calls that writes the manifest before the backend blob
ManifestBeforeBlob == <<"idmap", "manifest", "blob", "staged">>

\* the order of the calls of process_new_slices that change the object store:
\* _write_idmap, _store_index, _update_manifest, delete_prefix (indexer.py:121-142)
BuildSteps == <<"idmap", "blob", "manifest", "staged">>

\* the call after `step` was made: the locals of the build in progress
Advance(b, step) ==
    IF b.pc = Len(BuildSteps)
    THEN [b EXCEPT !.pc = 0, !.puts = @ \cup {step}, !.retry = FALSE]
    ELSE [b EXCEPT !.pc = @ + 1, !.puts = @ \cup {step}]

\* process_new_slices up to its first write: list and load the staged slices, load the
\* id map, append (indexer.py:103-120)
BuildStart ==
    /\ engine = "indexer"
    /\ build.pc = 0
    /\ staged # <<>>
    /\ build' = [pc |-> 1, tbl |-> _append_to_idmap(idmap, AllStagedRows(staged)),
                 listed |-> staged, man0 |-> manifest, puts |-> {},
                 base |-> IF build.retry THEN build.base ELSE idmap,
                 retry |-> build.retry, failures |-> build.failures]
    /\ last' = [op |-> "build_start"]
    /\ UNCHANGED <<engine, ixvars, reader, rival, upserts, mgr, lancevars, filtervars, lastWrite, liveKeys>>

\* _write_idmap (indexer.py:121)
BuildWriteIdmap ==
    /\ engine = "indexer"
    /\ build.pc > 0 /\ BuildSteps[build.pc] = "idmap"
    /\ idmap' = build.tbl
    /\ build' = Advance(build, "idmap")
    /\ last' = [op |-> "build_step", step |-> "idmap", done |-> build'.pc = 0]
    /\ UNCHANGED <<engine, now, staged, manifest, blobs, reader, rival, upserts, mgr, lancevars, filtervars,
                   lastWrite, liveKeys>>

\* backend.build and _store_index (indexer.py:129-138)
BuildStoreIndex ==
    /\ engine = "indexer"
    /\ build.pc > 0 /\ BuildSteps[build.pc] = "blob"
    /\ LET hnsw == use_hnsw(Algorithm, NumRows(build.tbl), HnswThreshold)
       IN blobs' = [blobs EXCEPT ![ExtOf(hnsw)] = [present |-> TRUE, labels |-> BuiltLabels(build.tbl)]]
    /\ build' = Advance(build, "blob")
    /\ last' = [op |-> "build_step", step |-> "blob", done |-> build'.pc = 0]
    /\ UNCHANGED <<engine, now, staged, idmap, manifest, reader, rival, upserts, mgr, lancevars, filtervars,
                   lastWrite, liveKeys>>

\* _update_manifest (indexer.py:134, 139)
BuildUpdateManifest ==
    /\ engine = "indexer"
    /\ build.pc > 0 /\ BuildSteps[build.pc] = "manifest"
    /\ LET hnsw == use_hnsw(Algorithm, NumRows(build.tbl), HnswThreshold)
       IN manifest' = [present |-> TRUE, algo |-> AlgoOf(hnsw), vectors |-> NumRows(build.tbl)]
    /\ build' = Advance(build, "manifest")
    /\ last' = [op |-> "build_step", step |-> "manifest", done |-> build'.pc = 0]
    /\ UNCHANGED <<engine, now, staged, idmap, blobs, reader, rival, upserts, mgr, lancevars, filtervars,
                   lastWrite, liveKeys>>

\* s3.delete_prefix of staged/<index>/ (indexer.py:142): everything under the prefix now
BuildClearStaged ==
    /\ engine = "indexer"
    /\ build.pc > 0 /\ BuildSteps[build.pc] = "staged"
    /\ staged' = <<>>
    /\ build' = Advance(build, "staged")
    /\ last' = [op |-> "build_step", step |-> "staged", done |-> build'.pc = 0]
    /\ UNCHANGED <<engine, now, idmap, manifest, blobs, reader, rival, upserts, mgr, lancevars, filtervars,
                   lastWrite, liveKeys>>

\* the build stops where it is: an exception of a call, or the process is cancelled
BuildFail ==
    /\ engine = "indexer"
    /\ build.pc > 0
    /\ build.failures < MaxFailures
    /\ build' = [build EXCEPT !.pc = 0, !.retry = TRUE, !.failures = @ + 1]
    /\ last' = [op |-> "build_failed", at |-> BuildSteps[build.pc]]
    /\ UNCHANGED <<engine, ixvars, reader, rival, upserts, mgr, lancevars, filtervars, lastWrite, liveKeys>>

\* search: s3.get_json of the manifest (indexer.py:148)
SearchGetManifest ==
    /\ engine = "indexer"
    /\ reader.pc = "idle"
    /\ reader' = [pc |-> "manifest_read", man |-> manifest, tbl |-> NoIdmap]
    /\ last' = [op |-> "search_step"]
    /\ UNCHANGED <<engine, ixvars, build, rival, upserts, mgr, lancevars, filtervars, lastWrite, liveKeys>>

\* search: _load_idmap; [] when there is no id map or it has no rows (indexer.py:156-158)
SearchLoadIdmap ==
    /\ engine = "indexer"
    /\ reader.pc = "manifest_read"
    /\ IF ~idmap.present \/ NumRows(idmap) = 0
       THEN /\ reader' = ReaderIdle
            /\ last' = [op |-> "search", man |-> reader.man, tbl |-> idmap, blob |-> NoBlob,
                        ids |-> {}]
       ELSE /\ reader' = [reader EXCEPT !.pc = "idmap_read", !.tbl = idmap]
            /\ last' = [op |-> "search_step"]
    /\ UNCHANGED <<engine, ixvars, build, rival, upserts, mgr, lancevars, filtervars, lastWrite, liveKeys>>

\* search: download of the blob the manifest read before names, then the backend
\* search; a missing blob has no labels to return (indexer.py:163-183)
SearchLoadBlob ==
    /\ engine = "indexer"
    /\ reader.pc = "idmap_read"
    /\ LET ext == IF reader.man.present /\ reader.man.algo = "hnsw_flat" THEN "hnsw" ELSE "faiss"
       IN last' = [op |-> "search", man |-> reader.man, tbl |-> reader.tbl, blob |-> blobs[ext],
                   ids |-> search(reader.man, reader.tbl, blobs)]
    /\ reader' = ReaderIdle
    /\ UNCHANGED <<engine, ixvars, build, rival, upserts, mgr, lancevars, filtervars, lastWrite, liveKeys>>

\* a second process_new_slices call, started whether or not another one is running
\* (indexer.py:97-108: no lease is taken and none is looked for)
RivalStart ==
    /\ engine = "indexer"
    /\ rival.pc = 0
    /\ staged # <<>>
    /\ rival' = [pc |-> 1, tbl |-> _append_to_idmap(idmap, AllStagedRows(staged))]
    /\ last' = [op |-> "rival_start", other_running |-> build.pc > 0]
    /\ UNCHANGED <<engine, ixvars, build, reader, upserts, mgr, lancevars, filtervars, lastWrite, liveKeys>>

\* the next call of the second process_new_slices: the same calls in the same order
RivalStep ==
    /\ engine = "indexer"
    /\ rival.pc > 0
    /\ LET step == BuildSteps[rival.pc]
           hnsw == use_hnsw(Algorithm, NumRows(rival.tbl), HnswThreshold)
       IN /\ idmap' = IF step = "idmap" THEN rival.tbl ELSE idmap
          /\ blobs' = IF step = "blob"
                      THEN [blobs EXCEPT ![ExtOf(hnsw)] = [present |-> TRUE, labels |-> BuiltLabels(rival.tbl)]]
                      ELSE blobs
          /\ manifest' = IF step = "manifest"
                         THEN [present |-> TRUE, algo |-> AlgoOf(hnsw), vectors |-> NumRows(rival.tbl)]
                         ELSE manifest
          /\ staged' = IF step = "staged" THEN <<>> ELSE staged
          /\ last' = [op |-> "rival_step", step |-> step]
    /\ rival' = [rival EXCEPT !.pc = IF rival.pc = Len(BuildSteps) THEN 0 ELSE rival.pc + 1]
    /\ UNCHANGED <<engine, now, build, reader, upserts, mgr, lancevars, filtervars, lastWrite, liveKeys>>

\* delete_by_keys
DeleteByKeys(keys) ==
    /\ engine = "indexer"
    /\ idmap' = delete_by_keys(idmap, keys)
    /\ liveKeys' = liveKeys \ Range(keys)
    /\ last' = [op |-> "delete", keys |-> Range(keys)]
    /\ UNCHANGED <<engine, procvars, now, staged, manifest, blobs, mgr, lancevars, filtervars, lastWrite>>

----------------------------------------------------------------------------
(* IndexManager *)

NoId == -1

\* IndexManager.__init__
MgrInit ==
    [key_to_id |-> [k \in Keys |-> NoId], id_to_key |-> <<>>, vecs |-> <<>>, meta |-> <<>>,
     alive |-> <<>>, next_id |-> 0, backend |-> "none", labels |-> {}]

\* the for loop of add_batch (manager.py:52-64): ids are handed out and the key maps
\* updated row by row, before the vectors are looked at
RECURSIVE AddLoop(_, _)
AddLoop(m, batch) ==
    IF batch = <<>> THEN m
    ELSE LET k == Head(batch).key
             old_id == m.key_to_id[k]
             idv == m.next_id
             killed == IF old_id # NoId THEN [m.alive EXCEPT ![old_id + 1] = FALSE] ELSE m.alive
         IN AddLoop([m EXCEPT !.alive = Append(killed, TRUE),
                               !.next_id = idv + 1,
                               !.key_to_id = [m.key_to_id EXCEPT ![k] = idv],
                               !.id_to_key = Append(m.id_to_key, k)],
                    Tail(batch))

\* np.asarray(new_vecs).reshape(len(new_vecs), self.dim) raises ValueError unless
\* every vector has dim components
ReshapeOk(batch) == \A i \in 1..Len(batch) : Len(batch[i].vec) = Dim

\* _choose_backend: only when no backend is set yet
_choose_backend(backend, total) ==
    IF backend = "none"
    THEN (IF Algorithm = "hnsw_flat" \/ (Algorithm = "hybrid" /\ total < HnswThreshold)
          THEN "hnsw" ELSE "ivfpq")
    ELSE backend

\* IndexManager.add_batch: the object after the call; the call raises when ~ReshapeOk
add_batch(m, batch) ==
    LET looped == AddLoop(m, batch)
        new_ids == {m.next_id + i - 1 : i \in 1..Len(batch)}
        vecs2 == m.vecs \o [i \in 1..Len(batch) |-> batch[i].vec]
        total == Len(vecs2)
    IN IF ~ReshapeOk(batch) THEN looped
       ELSE [looped EXCEPT
               !.meta = m.meta \o [i \in 1..Len(batch) |-> batch[i].meta],
               !.vecs = vecs2,
               !.backend = _choose_backend(m.backend, total),
               !.labels = IF total = Len(batch) THEN 0..(total - 1) ELSE m.labels \cup new_ids]

\* IndexManager.delete_keys
RECURSIVE delete_keys(_, _)
delete_keys(m, keys) ==
    IF keys = <<>> THEN m
    ELSE LET idv == m.key_to_id[Head(keys)]
         IN delete_keys(IF idv # NoId /\ m.alive[idv + 1]
                        THEN [m EXCEPT !.alive[idv + 1] = FALSE] ELSE m, Tail(keys))

\* IndexManager.get_vectors for one key: self._vecs[idv] and self._meta[idv] raise
\* IndexError when the id has no row
MgrGet(m, k) ==
    LET idv == m.key_to_id[k]
    IN IF idv = NoId \/ ~m.alive[idv + 1] THEN [status |-> "ok", rows |-> <<>>]
       ELSE IF idv >= Len(m.vecs) \/ idv >= Len(m.meta) THEN [status |-> "error", rows |-> <<>>]
       ELSE [status |-> "ok",
             rows |-> <<[Key |-> k, Data |-> m.vecs[idv + 1], Metadata |-> m.meta[idv + 1]]>>]

AddBatch(batch) ==
    /\ engine = "manager"
    /\ mgr.next_id + Len(batch) <= MaxRows
    /\ mgr' = add_batch(mgr, batch)
    /\ lastWrite' = IF ReshapeOk(batch) THEN RecordWrites(lastWrite, batch) ELSE lastWrite
    /\ liveKeys' = IF ReshapeOk(batch) THEN liveKeys \cup Written(batch) ELSE liveKeys
    /\ last' = [op |-> IF ReshapeOk(batch) THEN "add" ELSE "add_raised"]
    /\ UNCHANGED <<engine, procvars, ixvars, lancevars, filtervars>>

DeleteKeys(keys) ==
    /\ engine = "manager"
    /\ mgr' = delete_keys(mgr, keys)
    /\ liveKeys' = liveKeys \ Range(keys)
    /\ last' = [op |-> "delete", keys |-> Range(keys)]
    /\ UNCHANGED <<engine, procvars, ixvars, lancevars, filtervars, lastWrite>>

----------------------------------------------------------------------------
(* Lance tables: schema.py *)

MAX_BATCH == 500

NoType == "none"

\* create_vector_schema with no filterable column: key, vector, metadata_json
BaseColumns == {"key", "vector", "metadata_json"}

\* a table that is not there. vector_idx says whether list_indices names vector_idx, and
\* create_index_calls counts the calls of create_index the table has received.
NoTable == [exists |-> FALSE, ctype |-> [k \in MetaKeys |-> NoType], rows |-> <<>>,
            vector_idx |-> FALSE, create_index_calls |-> 0]

\* create_table: mode="overwrite", one dummy row added and deleted again
create_table == [exists |-> TRUE, ctype |-> [k \in MetaKeys |-> NoType], rows |-> <<>>,
                 vector_idx |-> FALSE, create_index_calls |-> 0]

\* table.schema.names
ColumnNames(tbl) == BaseColumns \cup {k \in MetaKeys : tbl.ctype[k] # NoType}

\* infer_arrow_type
infer_arrow_type(v) ==
    IF v.t = "bool" THEN "bool"
    ELSE IF v.t = "int" THEN "int64"
    ELSE IF v.t = "float" THEN "float64"
    ELSE "string"

\* create_filterable_types: the type of the first non-null value of every key of the batch
FirstType(vectors, k) ==
    LET having == {i \in 1..Len(vectors) : vectors[i].meta[k] \notin {Absent, Null}}
    IN IF having = {} THEN NoType
       ELSE infer_arrow_type(vectors[CHOOSE i \in having : \A j \in having : i <= j].meta[k])
create_filterable_types(vectors) ==
    [cat |-> FirstType(vectors, "cat"), score |-> FirstType(vectors, "score")]

\* str(n) for the small naturals of the model
DigitChars == <<"0", "1", "2", "3", "4", "5", "6", "7", "8", "9">>
RECURSIVE Digits(_)
Digits(n) == IF n < 10 THEN <<DigitChars[n + 1]>> ELSE Digits(n \div 10) \o <<DigitChars[(n % 10) + 1]>>

\* the cell conversions of prepare_batch_data: bool(v), int(v), float(v), str(v)
\* int(v) and float(v) raise on a string that is no number (the strings of the model)
ConvRaises(typ, v) == typ \in {"int64", "float64"} /\ v.t = "str"
Conv(typ, v) ==
    IF v \in {Absent, Null} THEN Null
    ELSE IF typ = "bool" THEN VBool(IF v.t = "bool" THEN v.b ELSE IF v.t = "int" THEN v.n # 0 ELSE TRUE)
    ELSE IF typ = "int64" THEN VInt(IF v.t = "bool" THEN (IF v.b THEN 1 ELSE 0) ELSE v.n)
    ELSE IF typ = "float64" THEN [t |-> "float", n |-> IF v.t = "bool" THEN (IF v.b THEN 1 ELSE 0) ELSE v.n]
    ELSE IF v.t = "str" THEN v
    ELSE IF v.t = "bool" THEN VStr(IF v.b THEN <<"T", "r", "u", "e">> ELSE <<"F", "a", "l", "s", "e">>)
    ELSE VStr(Digits(v.n))

\* prepare_batch_data raises: a vector whose length differs from dimension, or a cell
\* that does not convert
PrepareRaises(vectors, dimension, ftypes) ==
    \E i \in 1..Len(vectors) :
        \/ Len(vectors[i].vec) # dimension
        \/ \E k \in MetaKeys : ftypes[k] # NoType /\ ConvRaises(ftypes[k], vectors[i].meta[k])

\* prepare_batch_data: typed cells for the filterable keys, the rest in metadata_json
prepare_batch_data(vectors, ftypes) ==
    [i \in 1..Len(vectors) |->
        LET md == vectors[i].meta
            nonfilterable == [k \in MetaKeys |-> IF ftypes[k] = NoType THEN md[k] ELSE Absent]
        IN [key |-> vectors[i].key,
            vector |-> vectors[i].vec,
            metadata_json |-> IF nonfilterable = MdEmpty THEN Null ELSE JsonDumps(nonfilterable),
            cols |-> [k \in MetaKeys |-> IF ftypes[k] = NoType THEN Null ELSE Conv(ftypes[k], md[k])]]]

\* table.add: the batch's typed columns must have the table's types
AddRaises(tbl, ftypes) == \E k \in MetaKeys : ftypes[k] # NoType /\ tbl.ctype[k] # ftypes[k]

\* upsert_vectors (index_ops.py:31-71), for a non-empty batch: the table after the call
\* and the value returned. Every exception is caught and turned into False.
upsert_vectors(tbl, vectors) ==
    LET opened == IF tbl.exists THEN tbl ELSE create_table
        dimension == Len(vectors[1].vec)
        ftypes == create_filterable_types(vectors)
        evolved == [opened EXCEPT !.ctype =
                      [k \in MetaKeys |-> IF opened.ctype[k] = NoType THEN ftypes[k] ELSE opened.ctype[k]]]
    IN IF PrepareRaises(vectors, dimension, ftypes) \/ AddRaises(evolved, ftypes)
       THEN [ok |-> FALSE, table |-> evolved]
       ELSE [ok |-> TRUE,
             table |-> [evolved EXCEPT !.rows = evolved.rows \o prepare_batch_data(vectors, ftypes)]]

\* the metadata a reader attaches to a row: the column it reads is "nonfilter"
\* (index_ops.py:149, 426), and a row has it only if the table has such a column
RowMetadata(tbl, row) ==
    IF "nonfilter" \in ColumnNames(tbl) /\ row.cols["nonfilter"] # Null
    THEN JsonLoads(row.cols["nonfilter"]) ELSE MdEmpty

\* get_vectors (index_ops.py:391-447): rows whose key is one of keys, in table order
get_vectors(tbl, keys) ==
    IF ~tbl.exists THEN <<>>
    ELSE LET df == SelectSeq(tbl.rows, LAMBDA r : r.key \in Range(keys))
         IN [n \in 1..Len(df) |->
               [key |-> df[n].key, data |-> df[n].vector, metadata |-> RowMetadata(tbl, df[n])]]

\* list_vectors of index_ops.py with segment_count = 1: table.search().limit(max_results),
\* the first max_results rows in table order; [] when the table cannot be opened
index_ops_list_vectors(tbl, max_results) ==
    IF ~tbl.exists THEN <<>>
    ELSE LET n == IF Len(tbl.rows) < max_results THEN Len(tbl.rows) ELSE max_results
         IN [i \in 1..n |->
               [key |-> tbl.rows[i].key, vector |-> tbl.rows[i].vector,
                metadata |-> RowMetadata(tbl, tbl.rows[i])]]

----------------------------------------------------------------------------
(* Filters: filter_translate.py and index_ops._apply_python_filter *)

VList(items) == [t |-> "list", items |-> items]

LogicalOps == {"and", "or"}
LeafOps == {"equals", "not_equals", "greater_than", "greater_equal", "less_than",
            "less_equal", "in", "not_in", "exists"}

Leaf(op, key, value) == [operator |-> op, metadata_key |-> key, value |-> value]
Node(op, conds) == [operator |-> op, conditions |-> conds]
NotF(f) == [operator |-> "not", operand |-> f]

\* Python truthiness of a filter value
Truthy(v) ==
    IF v.t = "bool" THEN v.b
    ELSE IF v.t \in {"int", "float"} THEN v.n # 0
    ELSE IF v.t = "str" THEN v.s # <<>>
    ELSE IF v.t = "list" THEN v.items # <<>>
    ELSE FALSE

\* str.replace("'", "''")
RECURSIVE EscapeQuotes(_)
EscapeQuotes(cs) ==
    IF cs = <<>> THEN <<>>
    ELSE (IF Head(cs) = "'" THEN <<"'", "'">> ELSE <<Head(cs)>>) \o EscapeQuotes(Tail(cs))

\* str(val) of a value that is neither bool nor number
PyStr(v) == IF v.t = "str" THEN v.s ELSE IF v.t = "null" THEN <<"N", "o", "n", "e">> ELSE <<"[", "]">>

\* format_sql_value: the literal as written into the clause
format_sql_value(v) ==
    IF v.t = "bool" THEN [lit |-> "bool", b |-> v.b]
    ELSE IF v.t \in {"int", "float"} THEN [lit |-> "num", n |-> v.n]
    ELSE [lit |-> "quoted", body |-> EscapeQuotes(PyStr(v))]

\* the schema handed to the translator: none, or the column names of a table
NoSchema == [given |-> FALSE, names |-> {}]
SchemaOf(tbl) == [given |-> TRUE, names |-> ColumnNames(tbl)]

\* key_expr, and the json_extract expression used when no table is given
key_expr(schema, key) ==
    IF schema.given /\ key \in schema.names
    THEN [typed |-> TRUE, key |-> key]
    ELSE [typed |-> FALSE, key |-> key]

SqlConst(b) == [k |-> "const", b |-> b]
CmpSym(op) ==
    CASE op = "equals" -> "="
      [] op = "not_equals" -> "!="
      [] op = "greater_than" -> ">"
      [] op = "greater_equal" -> ">="
      [] op = "less_than" -> "<"
      [] op = "less_equal" -> "<="

\* _translate_aws_filter: the WHERE clause as a syntax tree
RECURSIVE _translate_aws_filter(_, _)
_translate_aws_filter(f, schema) ==
    IF f.operator \in LogicalOps
    THEN IF f.conditions = <<>> THEN SqlConst(TRUE)
         ELSE [k |-> f.operator,
               args |-> [i \in 1..Len(f.conditions) |-> _translate_aws_filter(f.conditions[i], schema)]]
    ELSE IF "metadata_key" \notin DOMAIN f THEN SqlConst(TRUE)
    ELSE LET column == key_expr(schema, f.metadata_key)
             value == f.value
         IN IF f.operator \in {"equals", "not_equals", "greater_than", "greater_equal",
                               "less_than", "less_equal"}
            THEN [k |-> "cmp", col |-> column, op |-> CmpSym(f.operator), lit |-> format_sql_value(value)]
            ELSE IF f.operator = "in"
            THEN (IF value.t # "list" \/ value.items = <<>> THEN SqlConst(FALSE)
                  ELSE [k |-> "in", col |-> column, neg |-> FALSE,
                        lits |-> [i \in 1..Len(value.items) |-> format_sql_value(value.items[i])]])
            ELSE IF f.operator = "not_in"
            THEN (IF value.t # "list" \/ value.items = <<>> THEN SqlConst(TRUE)
                  ELSE [k |-> "in", col |-> column, neg |-> TRUE,
                        lits |-> [i \in 1..Len(value.items) |-> format_sql_value(value.items[i])]])
            ELSE IF f.operator = "exists"
            THEN [k |-> "isnull", col |-> column, neg |-> Truthy(value)]
            ELSE SqlConst(TRUE)

\* aws_filter_to_where
aws_filter_to_where(f, schema) == _translate_aws_filter(f, schema)

(* The WHERE clause as text. Text written by the translator itself is kept in pieces
   that hold no quote; a single quote is always an element of its own. *)

\* the f-string of key_expr: "<key>" for a typed column, else
\* json_extract(metadata_json, '$.<key>'); the key is put in as it is
ColumnText(col) ==
    IF col.typed THEN <<"dq">> \o col.key \o <<"dq">>
    ELSE <<"json_extract(metadata_json, ", "'", "$.">> \o col.key \o <<"'", ")">>

\* the text format_sql_value returns
LiteralText(l) ==
    IF l.lit = "bool" THEN (IF l.b THEN <<"TRUE">> ELSE <<"FALSE">>)
    ELSE IF l.lit = "num" THEN Digits(l.n)
    ELSE <<"'">> \o l.body \o <<"'">>

\* ', '.join(...)
RECURSIVE JoinTexts(_, _)
JoinTexts(ts, sep) ==
    IF ts = <<>> THEN <<>>
    ELSE IF Len(ts) = 1 THEN ts[1]
    ELSE ts[1] \o <<sep>> \o JoinTexts(Tail(ts), sep)

\* the string _translate_aws_filter returns
RECURSIVE WhereText(_)
WhereText(w) ==
    IF w.k = "const" THEN (IF w.b THEN <<"TRUE">> ELSE <<"FALSE">>)
    ELSE IF w.k = "cmp" THEN ColumnText(w.col) \o <<" ", w.op, " ">> \o LiteralText(w.lit)
    ELSE IF w.k = "in"
    THEN ColumnText(w.col) \o <<IF w.neg THEN " NOT IN (" ELSE " IN (">>
         \o JoinTexts([i \in 1..Len(w.lits) |-> LiteralText(w.lits[i])], ", ") \o <<")">>
    ELSE IF w.k = "isnull" THEN ColumnText(w.col) \o <<IF w.neg THEN " IS NOT NULL" ELSE " IS NULL">>
    ELSE <<"(">> \o JoinTexts([i \in 1..Len(w.args) |-> WhereText(w.args[i])],
                              IF w.k = "and" THEN " AND " ELSE " OR ") \o <<")">>

\* the quoted literals an SQL scanner finds in a text: a quote opens a literal, two
\* quotes inside one are one quote of its value, a single one closes it. `open` tells
\* that the text ended inside a literal.
RECURSIVE ScanLiterals(_, _, _, _)
ScanLiterals(text, inLit, cur, acc) ==
    IF text = <<>> THEN [lits |-> acc, open |-> inLit]
    ELSE IF Head(text) = "'"
    THEN IF ~inLit THEN ScanLiterals(Tail(text), TRUE, <<>>, acc)
         ELSE IF Len(text) >= 2 /\ text[2] = "'"
         THEN ScanLiterals(Tail(Tail(text)), TRUE, Append(cur, "'"), acc)
         ELSE ScanLiterals(Tail(text), FALSE, <<>>, Append(acc, cur))
    ELSE ScanLiterals(Tail(text), inLit, IF inLit THEN Append(cur, Head(text)) ELSE cur, acc)

(* Evaluation of a WHERE clause on a row: SQL three-valued logic, "T" "F" "N" *)

\* a quoted literal read back by the SQL parser: '' is one quote
RECURSIVE UnescapeQuotes(_)
UnescapeQuotes(cs) ==
    IF cs = <<>> THEN <<>>
    ELSE IF Len(cs) >= 2 /\ cs[1] = "'" /\ cs[2] = "'" THEN <<"'">> \o UnescapeQuotes(Tail(Tail(cs)))
    ELSE <<Head(cs)>> \o UnescapeQuotes(Tail(cs))

LitValue(l) ==
    IF l.lit = "bool" THEN VBool(l.b)
    ELSE IF l.lit = "num" THEN VInt(l.n)
    ELSE VStr(UnescapeQuotes(l.body))

\* the value of a column expression on a row; json_extract of a missing key or of a
\* JSON null is NULL
ColValue(col, row) ==
    IF col.typed THEN row.cols[col.key]
    ELSE IF row.metadata_json = Null THEN Null
    ELSE LET v == JsonLoads(row.metadata_json)[col.key] IN IF v = Absent THEN Null ELSE v

IsNum(v) == v.t \in {"int", "float"}

SqlCompare(sym, a, b) ==
    IF a = Null \/ b = Null THEN "N"
    ELSE IF sym = "=" THEN (IF (IsNum(a) /\ IsNum(b) /\ a.n = b.n) \/ a = b THEN "T" ELSE "F")
    ELSE IF sym = "!=" THEN (IF (IsNum(a) /\ IsNum(b) /\ a.n = b.n) \/ a = b THEN "F" ELSE "T")
    ELSE IF ~(IsNum(a) /\ IsNum(b)) THEN "F"
    ELSE IF sym = ">" THEN (IF a.n > b.n THEN "T" ELSE "F")
    ELSE IF sym = ">=" THEN (IF a.n >= b.n THEN "T" ELSE "F")
    ELSE IF sym = "<" THEN (IF a.n < b.n THEN "T" ELSE "F")
    ELSE (IF a.n <= b.n THEN "T" ELSE "F")

Not3(x) == IF x = "T" THEN "F" ELSE IF x = "F" THEN "T" ELSE "N"
And3(S) == IF "F" \in S THEN "F" ELSE IF "N" \in S THEN "N" ELSE "T"
Or3(S) == IF "T" \in S THEN "T" ELSE IF "N" \in S THEN "N" ELSE "F"

RECURSIVE SqlEval(_, _)
SqlEval(e, row) ==
    IF e.k = "const" THEN (IF e.b THEN "T" ELSE "F")
    ELSE IF e.k = "and" THEN And3({SqlEval(e.args[i], row) : i \in 1..Len(e.args)})
    ELSE IF e.k = "or" THEN Or3({SqlEval(e.args[i], row) : i \in 1..Len(e.args)})
    ELSE IF e.k = "cmp" THEN SqlCompare(e.op, ColValue(e.col, row), LitValue(e.lit))
    ELSE IF e.k = "in"
    THEN LET m == Or3({SqlCompare("=", ColValue(e.col, row), LitValue(e.lits[i])) : i \in 1..Len(e.lits)})
         IN IF e.neg THEN Not3(m) ELSE m
    ELSE \* isnull
         IF (ColValue(e.col, row) = Null) = ~e.neg THEN "T" ELSE "F"

\* the positions of the rows a WHERE clause selects
SqlSelect(e, tbl) == {i \in 1..Len(tbl.rows) : SqlEval(e, tbl.rows[i]) = "T"}

(* _apply_python_filter *)

\* float(x): defined for numbers, booleans and numeric strings
PyFloatOk(v) == v.t \in {"int", "float", "bool"} \/ (v.t = "str" /\ Len(v.s) = 1 /\ v.s[1] \in Range(DigitChars))
PyFloat(v) ==
    IF v.t = "bool" THEN (IF v.b THEN 1 ELSE 0)
    ELSE IF v.t = "str" THEN (CHOOSE d \in 0..9 : DigitChars[d + 1] = v.s[1])
    ELSE v.n

\* Python ==
PyEq(a, b) == (a = b) \/ (PyFloatOk(a) /\ PyFloatOk(b) /\ a.t # "str" /\ b.t # "str" /\ PyFloat(a) = PyFloat(b))

PyOrder(op, a, b) ==
    IF ~(PyFloatOk(a) /\ PyFloatOk(b)) THEN FALSE
    ELSE IF op = "greater_than" THEN PyFloat(a) > PyFloat(b)
    ELSE IF op = "greater_equal" THEN PyFloat(a) >= PyFloat(b)
    ELSE IF op = "less_than" THEN PyFloat(a) < PyFloat(b)
    ELSE PyFloat(a) <= PyFloat(b)

\* check_condition(row, condition)
RECURSIVE check_condition(_, _, _)
check_condition(tbl, row, f) ==
    IF f.operator = "and" THEN \A i \in 1..Len(f.conditions) : check_condition(tbl, row, f.conditions[i])
    ELSE IF f.operator = "or" THEN \E i \in 1..Len(f.conditions) : check_condition(tbl, row, f.conditions[i])
    ELSE IF f.operator = "not" THEN ~check_condition(tbl, row, f.operand)
    ELSE LET got == RowMetadata(tbl, row)[f.metadata_key]
             actual_value == IF got = Absent THEN Null ELSE got
             filter_value == f.value
         IN IF f.operator = "equals" THEN PyEq(actual_value, filter_value)
            ELSE IF f.operator = "not_equals" THEN ~PyEq(actual_value, filter_value)
            ELSE IF f.operator = "in"
            THEN (filter_value.t = "list" /\ \E i \in 1..Len(filter_value.items) : PyEq(actual_value, filter_value.items[i]))
            ELSE IF f.operator = "not_in"
            THEN (filter_value.t # "list" \/ ~\E i \in 1..Len(filter_value.items) : PyEq(actual_value, filter_value.items[i]))
            ELSE IF f.operator \in {"greater_than", "greater_equal", "less_than", "less_equal"}
            THEN PyOrder(f.operator, actual_value, filter_value)
            ELSE IF f.operator = "exists" THEN PyEq(VBool(actual_value # Null), filter_value)
            ELSE TRUE

\* _apply_python_filter: the positions of the rows the predicate keeps
_apply_python_filter(tbl, f) == {i \in 1..Len(tbl.rows) : check_condition(tbl, tbl.rows[i], f)}

----------------------------------------------------------------------------
(* The HTTP surfaces over Lance: api.py (native) and main.py (action) *)

IndexNames == {<<"i", "1">>}

\* the dimensions a CreateIndex request asks for
Dimensions == {Dim, Dim + 1}

\* metadataConfiguration.nonFilterableMetadataKeys of a CreateIndex request
NonFilterableSets == {{}, {"cat"}}
Surfaces == {"native", "action"}

\* table_path: "/", ":", " ", "-" and every character outside [a-zA-Z0-9_.-] become "_",
\* runs of "_" collapse to one, leading and trailing "_" are stripped
NameChars == {"i", "1", "."}
SafeChar(c) == IF c \in NameChars THEN c ELSE "_"
RECURSIVE Collapse(_)
Collapse(cs) ==
    IF Len(cs) < 2 THEN cs
    ELSE IF cs[1] = "_" /\ cs[2] = "_" THEN Collapse(Tail(cs))
    ELSE <<Head(cs)>> \o Collapse(Tail(cs))
RECURSIVE StripL(_)
StripL(cs) == IF cs # <<>> /\ Head(cs) = "_" THEN StripL(Tail(cs)) ELSE cs
RECURSIVE StripR(_)
StripR(cs) == IF cs # <<>> /\ cs[Len(cs)] = "_" THEN StripR(SubSeq(cs, 1, Len(cs) - 1)) ELSE cs
table_path(index_name) ==
    StripR(StripL(Collapse([i \in 1..Len(index_name) |-> SafeChar(index_name[i])])))

TableNames == {table_path(n) : n \in IndexNames}

\* validate_index_name: 1 to 255 characters, each alphanumeric, "-" or "_"
validate_index_name(name) ==
    /\ name # <<>>
    /\ Len(name) <= 255
    /\ \A i \in 1..Len(name) : name[i] \in {"i", "1", "-", "_"}

\* the index names of one bucket that pass validate_index_name
IsolationNames ==
    {n \in {<<"i", "1">>, <<"i", "-", "1">>, <<"i", "_", "1">>, <<"i", ".", "1">>} : validate_index_name(n)}

NoConfig == [present |-> FALSE, dimension |-> 0, nonfilterable |-> {}]

\* write payloads of the Lance surfaces: the last one has the wrong length
LancePayloads == Payloads \cup {[vec |-> <<1, 0>>, meta |-> MdCat7]}
LanceBadPayloads == {[vec |-> <<1>>, meta |-> MdCatX]}

\* a request of MAX_BATCH + 1 vectors
BigBatch == [i \in 1..(MAX_BATCH + 1) |-> [key |-> "a", vec |-> <<1, 0>>, meta |-> MdEmpty]]

QueryFilters == {Leaf("equals", "cat", VStr(<<"x">>)), Leaf("equals", "score", VInt(7))}

\* create_vector_bucket (api.py): ensure_bucket and _meta/bucket.json, whether or not the
\* bucket exists; create_vector_bucket_service (main.py): 409 when the bucket exists
CreateVectorBucket(surface) ==
    /\ engine = "lance"
    /\ IF surface = "action" /\ bucket
       THEN /\ last' = [op |-> "create_bucket", status |-> 409, surface |-> surface, existed |-> bucket]
            /\ UNCHANGED bucket
       ELSE /\ bucket' = TRUE
            /\ last' = [op |-> "create_bucket", status |-> 200, surface |-> surface, existed |-> bucket]
    /\ UNCHANGED <<engine, procvars, ixvars, mgr, configs, tables, filtervars, lastWrite, liveKeys>>

\* the bucket check of a handler: bucket_name in s3.list_vector_buckets() on the action
\* surface; the native surface calls s3.bucket_exists, which S3Storage does not define
\* in this source tree, and is taken to answer the same
BucketExists == bucket

\* create_index (api.py) and create_index_service (main.py)
CreateIndex(surface, name, dimension, nonfilterable) ==
    /\ engine = "lance"
    /\ IF ~BucketExists
       THEN /\ last' = [op |-> "create_index", status |-> 404, surface |-> surface, index |-> name,
                        dimension |-> dimension, existed |-> configs[name].present]
            /\ UNCHANGED <<configs, tables>>
       ELSE /\ tables' = [tables EXCEPT ![table_path(name)] = create_table]
            /\ configs' = [configs EXCEPT ![name] = [present |-> TRUE, dimension |-> dimension,
                                                     nonfilterable |-> nonfilterable]]
            /\ last' = [op |-> "create_index", status |-> 200, surface |-> surface, index |-> name,
                        dimension |-> dimension, existed |-> configs[name].present]
    /\ UNCHANGED <<engine, procvars, ixvars, mgr, bucket, filtervars, lastWrite, liveKeys>>

\* S3Storage.bucket_name: the object-store bucket of a vector bucket
bucket_name(vector_bucket) == <<"vb-">> \o vector_bucket

\* the vector bucket of the model
VectorBucket == <<"b">>

\* the object-store buckets there are: the one of the vector bucket and, when a vector
\* bucket named "vb-b" exists as well, that one's
ObjectBuckets(shadow) ==
    (IF bucket THEN {bucket_name(VectorBucket)} ELSE {})
    \cup (IF shadow THEN {bucket_name(bucket_name(VectorBucket))} ELSE {})

\* delete_index (api.py:345-369): s3_bucket is the prefixed name, and delete_prefix
\* prefixes the name it is given once more before it lists indexes/<index>/. The Lance
\* table lives at <table_path>.lance under the bucket root and staged/<index>/ is
\* another prefix: neither is under indexes/<index>/.
DeleteIndex(name, shadow) ==
    /\ engine = "lance"
    /\ LET s3_bucket == bucket_name(VectorBucket)
           target == bucket_name(s3_bucket)
       IN IF ~BucketExists
          THEN /\ last' = [op |-> "delete_index", status |-> 404, index |-> name]
               /\ UNCHANGED configs
          ELSE IF target \notin ObjectBuckets(shadow)
          THEN /\ last' = [op |-> "delete_index", status |-> 500, index |-> name]
               /\ UNCHANGED configs
          ELSE /\ configs' = IF target = bucket_name(VectorBucket)
                             THEN [configs EXCEPT ![name] = NoConfig] ELSE configs
               /\ last' = [op |-> "delete_index", status |-> 200, index |-> name]
    /\ UNCHANGED <<engine, procvars, ixvars, mgr, bucket, tables, filtervars, lastWrite, liveKeys>>

\* put_vectors (api.py:375-423) and put_vectors_service (main.py:447-569): neither
\* looks at the value upsert_vectors returns; rebuild_index does not touch the rows
PutVectors(surface, name, vectors) ==
    /\ engine = "lance"
    /\ \/ Len(tables[table_path(name)].rows) + Len(vectors) <= MaxTableRows
       \/ vectors = BigBatch /\ tables[table_path(name)].rows = <<>> /\ configs[name].present
    /\ LET r == upsert_vectors(tables[table_path(name)], vectors)
           done == BucketExists
       IN /\ tables' = IF done THEN [tables EXCEPT ![table_path(name)] = r.table] ELSE tables
          /\ lastWrite' = IF done /\ r.ok THEN RecordWrites(lastWrite, vectors) ELSE lastWrite
          /\ liveKeys' = IF done /\ r.ok THEN liveKeys \cup Written(vectors) ELSE liveKeys
          /\ last' = [op |-> "put", status |-> IF done THEN 200 ELSE 404,
                      surface |-> surface, index |-> name,
                      n |-> Len(vectors), keys |-> Written(vectors), ok |-> done /\ r.ok,
                      bucket |-> done, configured |-> configs[name].present,
                      mismatch |-> configs[name].present /\
                          \E i \in 1..Len(vectors) : Len(vectors[i].vec) # configs[name].dimension]
    /\ UNCHANGED <<engine, procvars, ixvars, mgr, bucket, configs, filtervars>>

\* search_vectors (index_ops.py:74-169): the keys of the rows a query returns when
\* top_k is at least the table size. The filter is translated without the table; when
\* the Lance query raises, _manual_search_vectors filters in Python instead.
search_vectors(tbl, f, path) ==
    IF ~tbl.exists THEN {}
    ELSE LET where_clause == aws_filter_to_where(f, NoSchema)
             sel == IF where_clause = SqlConst(TRUE) THEN 1..Len(tbl.rows)
                    ELSE IF path = "lance" THEN SqlSelect(where_clause, tbl)
                    ELSE _apply_python_filter(tbl, f)
         IN {tbl.rows[i].key : i \in sel}

\* query_vectors (api.py) / query_vectors_service (main.py)
QueryVectors(name, f, path) ==
    /\ engine = "lance"
    /\ BucketExists
    /\ configs[name].present
    /\ Len(tables[table_path(name)].rows) <= MaxTableRows
    /\ last' = [op |-> "query", status |-> 200, index |-> name, filter |-> f,
                keys |-> search_vectors(tables[table_path(name)], f, path)]
    /\ UNCHANGED <<engine, procvars, ixvars, mgr, lancevars, filtervars, lastWrite, liveKeys>>

(* index_builder.py: the explicit index build *)

\* the LANCE_INDEX_TYPE settings a stored index configuration can carry
IndexTypes == {"AUTO", "IVF_PQ", "HNSW", "NONE", "FLAT"}

\* the calls of create_index one table receives in the model
MaxCalls == 2

\* the AUTO heuristic
AutoType(n, dim) == IF n >= 200000 /\ dim >= 256 THEN "IVF_PQ" ELSE "HNSW"

\* a build that goes to create_index without looking at list_indices
BuildIndexUnchecked(cfg, tbl, indexType, outcome) ==
    LET itype == IF indexType = "AUTO" THEN AutoType(Len(tbl.rows), cfg.dimension) ELSE indexType
        called == [tbl EXCEPT !.create_index_calls = @ + 1]
    IN IF ~cfg.present \/ ~tbl.exists
       THEN [status |-> "ERROR", note |-> "none", called |-> FALSE, table |-> tbl]
       ELSE IF itype = "NONE"
       THEN [status |-> "SKIPPED", note |-> "index disabled", called |-> FALSE, table |-> tbl]
       ELSE IF itype \notin {"IVF_PQ", "HNSW"}
       THEN [status |-> "ERROR", note |-> "none", called |-> FALSE, table |-> tbl]
       ELSE IF outcome = "raises"
       THEN [status |-> "ERROR", note |-> "none", called |-> TRUE, table |-> called]
       ELSE [status |-> "READY", note |-> "none", called |-> TRUE,
             table |-> [called EXCEPT !.vector_idx = TRUE]]

\* build_index_if_needed: the status dictionary and the table afterwards. cfg is the
\* stored configuration (absent: cfg["dimension"] raises), outcome is what
\* tbl.create_index does when it is reached; every raise ends in the except clause.
build_index_if_needed(cfg, tbl, indexType, outcome) ==
    LET itype == IF indexType = "AUTO" THEN AutoType(Len(tbl.rows), cfg.dimension) ELSE indexType
        called == [tbl EXCEPT !.create_index_calls = @ + 1]
    IN IF ~cfg.present \/ ~tbl.exists
       THEN [status |-> "ERROR", note |-> "none", called |-> FALSE, table |-> tbl]
       ELSE IF tbl.vector_idx
       THEN [status |-> "READY", note |-> "index exists", called |-> FALSE, table |-> tbl]
       ELSE IF itype = "NONE"
       THEN [status |-> "SKIPPED", note |-> "index disabled", called |-> FALSE, table |-> tbl]
       ELSE IF itype \notin {"IVF_PQ", "HNSW"}
       THEN [status |-> "ERROR", note |-> "none", called |-> FALSE, table |-> tbl]
       ELSE IF outcome = "raises"
       THEN [status |-> "ERROR", note |-> "none", called |-> TRUE, table |-> called]
       ELSE [status |-> "READY", note |-> "none", called |-> TRUE,
             table |-> [called EXCEPT !.vector_idx = TRUE]]

\* one call of build_index_if_needed for an index
BuildIndexIfNeeded(name, indexType, outcome) ==
    /\ engine = "lance"
    /\ tables[table_path(name)].create_index_calls < MaxCalls
    /\ LET r == build_index_if_needed(IF bucket THEN configs[name] ELSE NoConfig,
                                      IF bucket THEN tables[table_path(name)] ELSE NoTable,
                                      indexType, outcome)
       IN /\ tables' = IF bucket THEN [tables EXCEPT ![table_path(name)] = r.table] ELSE tables
          /\ last' = [op |-> "build_index", index |-> name, status |-> r.status, note |-> r.note,
                      called |-> r.called, had_index |-> tables[table_path(name)].vector_idx,
                      outcome |-> outcome]
    /\ UNCHANGED <<engine, procvars, ixvars, mgr, bucket, configs, filtervars, lastWrite, liveKeys>>

(* upsert_vectors call by call, for requests served by different workers: each action is
   one call to the Lance table *)

\* the batches of racing requests: every one brings the metadata keys cat and score
EvolveBatches == {<<[key |-> k, vec |-> v, meta |-> MdCatX]>> : k \in Keys, v \in {<<1, 0>>, <<0, 1>>}}

\* upsert_vectors up to its schema read: db.open_table, or create_table when that
\* raises; existing_fields are the columns of the table as opened (index_ops.py:38-58)
UpsertOpen(r, name, vectors) ==
    /\ engine = "lance"
    /\ BucketExists
    /\ upserts[r].pc = "idle"
    /\ Len(tables[table_path(name)].rows)
          + Cardinality({q \in Requests : upserts[q].pc # "idle"}) < MaxTableRows
    /\ LET t == table_path(name)
           opened == IF tables[t].exists THEN tables[t] ELSE create_table
       IN /\ tables' = [tables EXCEPT ![t] = opened]
          /\ upserts' = [upserts EXCEPT ![r] = [pc |-> "opened", vectors |-> vectors,
                                                existing_fields |-> ColumnNames(opened)]]
    /\ last' = [op |-> "put_step", request |-> r, index |-> name]
    /\ UNCHANGED <<engine, ixvars, build, reader, rival, mgr, bucket, configs, filtervars,
                   lastWrite, liveKeys>>

\* table.add_columns for the keys not among existing_fields (index_ops.py:59-62). Adding
\* a column the table has by now raises; upsert_vectors catches it and returns False,
\* and the handler answers 200 all the same.
UpsertAddColumns(r, name) ==
    /\ engine = "lance"
    /\ upserts[r].pc = "opened"
    /\ LET t == table_path(name)
           ftypes == create_filterable_types(upserts[r].vectors)
           new_fields == {k \in MetaKeys : ftypes[k] # NoType} \ upserts[r].existing_fields
       IN IF new_fields \cap ColumnNames(tables[t]) # {}
          THEN /\ upserts' = [upserts EXCEPT ![r] = UpsertIdle]
               /\ last' = [op |-> "put_done", request |-> r, index |-> name, status |-> 200, ok |-> FALSE,
                           keys |-> Written(upserts[r].vectors), raised |-> "add_columns"]
               /\ UNCHANGED tables
          ELSE /\ tables' = [tables EXCEPT ![t].ctype =
                                [k \in MetaKeys |-> IF k \in new_fields THEN ftypes[k] ELSE @[k]]]
               /\ upserts' = [upserts EXCEPT ![r].pc = "columns_done"]
               /\ last' = [op |-> "put_step", request |-> r, index |-> name]
    /\ UNCHANGED <<engine, ixvars, build, reader, rival, mgr, bucket, configs, filtervars,
                   lastWrite, liveKeys>>

\* prepare_batch_data and table.add (index_ops.py:63-67)
UpsertAdd(r, name) ==
    /\ engine = "lance"
    /\ upserts[r].pc = "columns_done"
    /\ LET t == table_path(name)
           vectors == upserts[r].vectors
           ftypes == create_filterable_types(vectors)
           raises == PrepareRaises(vectors, Len(vectors[1].vec), ftypes) \/ AddRaises(tables[t], ftypes)
       IN /\ tables' = IF raises THEN tables
                       ELSE [tables EXCEPT ![t].rows = @ \o prepare_batch_data(vectors, ftypes)]
          /\ last' = [op |-> "put_done", request |-> r, index |-> name, status |-> 200, ok |-> ~raises,
                      keys |-> Written(vectors), raised |-> IF raises THEN "add" ELSE "none"]
    /\ upserts' = [upserts EXCEPT ![r] = UpsertIdle]
    /\ UNCHANGED <<engine, ixvars, build, reader, rival, mgr, bucket, configs, filtervars,
                   lastWrite, liveKeys>>

\* the distance of a row from the query: _distance of table.search (squared L2, the
\* metric Lance uses when none is given) on the Lance path, 1 - cosine similarity on the
\* manual path (the vectors of the model have norm 1)
Dot(q, v) == SumSeq([i \in 1..Len(q) |-> q[i] * v[i]])
Distance(path, q, v) ==
    IF path = "lance" THEN SumSeq([i \in 1..Len(q) |-> (q[i] - v[i]) * (q[i] - v[i])])
    ELSE 1 - Dot(q, v)

\* search_vectors without a filter and with top_k at least the table size: key and
\* distance of every row (listed in table order), the distance only when return_distance
NoDistance == -1
search_distances(tbl, q, path, return_distance) ==
    IF ~tbl.exists THEN <<>>
    ELSE [i \in 1..Len(tbl.rows) |->
            [key |-> tbl.rows[i].key,
             distance |-> IF return_distance THEN Distance(path, q, tbl.rows[i].vector)
                          ELSE NoDistance]]

\* the query vectors of the model and returnDistance of a request ("unset": not given)
QueryVecs == {<<1, 0>>, <<0, 1>>}
ReturnFlags == {"true", "false", "unset"}

\* the distances of a query answer. query_vectors (api.py:465-476) asks search_vectors
\* with return_distance = (request.returnDistance or True) and answers its rows;
\* query_vectors_service (main.py:694-717) asks with the defaults and, when
\* returnDistance (default True) is set, answers result.get("score", 0.0) per row.
QueryVectorsDistance(surface, name, q, path, flag) ==
    /\ engine = "lance"
    /\ BucketExists
    /\ surface = "native" => configs[name].present
    /\ tables[table_path(name)].rows # <<>>
    /\ LET tbl == tables[table_path(name)]
           computed == search_distances(tbl, q, path, TRUE)
           results == IF surface = "native"
                      THEN search_distances(tbl, q, path, (flag = "true") \/ TRUE)
                      ELSE [i \in 1..Len(computed) |->
                              [key |-> computed[i].key,
                               distance |-> IF flag # "false" THEN 0 ELSE NoDistance]]
       IN last' = [op |-> "query_distance", status |-> 200, surface |-> surface, index |-> name,
                   returnDistance |-> flag, computed |-> computed, vectors |-> results]
    /\ UNCHANGED <<engine, procvars, ixvars, mgr, lancevars, filtervars, lastWrite, liveKeys>>

\* no continuation token
NoToken == "none"

\* maxResults and nextToken of a ListVectors request
PageSizes == {1, 2}
Cursors == Keys \cup {NoToken}

\* the listing of list_vectors (api.py:538-575): index_ops.list_vectors is given
\* maxResults, request.nextToken is not passed on, and the answer has nextToken=None
ListVectors(name, max_results, next_token) ==
    /\ engine = "lance"
    /\ BucketExists
    /\ last' = [op |-> "list", status |-> 200, index |-> name, max_results |-> max_results,
                cursor |-> next_token,
                vectors |-> index_ops_list_vectors(tables[table_path(name)], max_results),
                nextToken |-> NoToken]
    /\ UNCHANGED <<engine, procvars, ixvars, mgr, lancevars, filtervars, lastWrite, liveKeys>>

----------------------------------------------------------------------------
(* Filter paths side by side *)

FilterValues == {VStr(<<"x">>), VStr(<<"y">>), VInt(7), VInt(5), Null}
FilterLeaves ==
    {Leaf(op, k, v) : op \in LeafOps \ {"in", "not_in", "exists"}, k \in MetaKeys, v \in FilterValues}
    \cup {Leaf(op, k, VList(l)) : op \in {"in", "not_in"}, k \in MetaKeys,
                                   l \in {<<>>, <<VStr(<<"x">>)>>, <<VStr(<<"x">>), VInt(7)>>}}
    \cup {Leaf("exists", k, VBool(b)) : k \in MetaKeys, b \in BOOLEAN}
NodeLeaves == {Leaf("equals", "cat", VStr(<<"x">>)), Leaf("greater_than", "score", VInt(5)),
               Leaf("exists", "cat", VBool(FALSE))}
Filters ==
    FilterLeaves
    \cup {Node(op, cs) : op \in LogicalOps, cs \in [1..2 -> NodeLeaves]}
    \cup {NotF(f) : f \in NodeLeaves}

\* the tables one write can leave behind
Datasets ==
    {upsert_vectors(create_table, b).table :
        b \in {c \in Batches(LancePayloads \cup {[vec |-> <<1, 0>>, meta |-> [cat |-> Null, score |-> VInt(5)]]}) :
                  upsert_vectors(create_table, c).ok}}

NoResult == [done |-> FALSE, pushdown |-> {}, postfilter |-> {}]

\* both paths applied to one filter and one table
ApplyFilter ==
    /\ engine = "filter"
    /\ ~fres.done
    /\ fres' = [done |-> TRUE,
                pushdown |-> SqlSelect(aws_filter_to_where(fq, NoSchema), ftab),
                postfilter |-> _apply_python_filter(ftab, fq)]
    /\ last' = [op |-> "filter"]
    /\ UNCHANGED <<engine, procvars, ixvars, mgr, lancevars, fq, ftab, lastWrite, liveKeys>>

----------------------------------------------------------------------------
(* Specifications *)

InitRest ==
    /\ now = 0
    /\ staged = <<>>
    /\ idmap = NoIdmap
    /\ manifest = NoManifest
    /\ blobs = [e \in {"hnsw", "faiss"} |-> NoBlob]
    /\ mgr = MgrInit
    /\ bucket = FALSE
    /\ fres = NoResult
    /\ lastWrite = [k \in Keys |-> NoWrite]
    /\ liveKeys = {}
    /\ build = BuildIdle
    /\ reader = ReaderIdle
    /\ rival = RivalIdle
    /\ upserts = [r \in Requests |-> UpsertIdle]
    /\ last = [op |-> "init"]

InitCommon ==
    /\ InitRest
    /\ configs = [n \in IndexNames |-> NoConfig]
    /\ tables = [t \in TableNames |-> NoTable]

NoFilter == Node("and", <<>>)

\* the characters of metadata keys and string values given to the translator
MaxText == 2
KeyTexts == UNION {[1..n -> {"c", "'"}] : n \in 1..MaxText}
ValueTexts == UNION {[1..n -> {"x", "'"}] : n \in 0..MaxText}
EscapeScalars == {VStr(t) : t \in ValueTexts} \cup {VInt(7), VBool(TRUE), VBool(FALSE)}
EscapeLists ==
    {VList(<<VStr(t)>>) : t \in ValueTexts} \cup {VList(<<VStr(t), VStr(<<"x">>)>>) : t \in ValueTexts}
\* a comparison with a scalar, or a membership test with a list of strings
EscapeLeaves ==
    {Leaf(op, k, v) : op \in LeafOps \ {"exists", "in", "not_in"}, k \in KeyTexts, v \in EscapeScalars}
    \cup {Leaf(op, k, v) : op \in {"in", "not_in"}, k \in KeyTexts, v \in EscapeLists}

\* aws_filter_to_where without a table, as search_vectors calls it
TranslateFilter ==
    /\ engine = "escape"
    /\ ~fres.done
    /\ fres' = [done |-> TRUE, text |-> WhereText(aws_filter_to_where(fq, NoSchema))]
    /\ last' = [op |-> "translate"]
    /\ UNCHANGED <<engine, procvars, ixvars, mgr, lancevars, fq, ftab, lastWrite, liveKeys>>

\* the slice indexer and the IndexManager
Init ==
    /\ engine \in {"indexer", "manager"}
    /\ fq = NoFilter
    /\ ftab = NoTable
    /\ InitCommon

Next ==
    \/ Tick
    \/ \E batch \in Batches(Payloads) : write_slice(batch)
    \/ process_new_slices
    \/ \E keys \in KeyLists : DeleteByKeys(keys)
    \/ \E batch \in Batches(Payloads \cup BadPayloads) : AddBatch(batch)
    \/ \E keys \in KeyLists : DeleteKeys(keys)

Spec == Init /\ [][Next]_vars

\* write requests of one row
OneRowBatches == {<<r>> : r \in InputRows(Payloads)}

\* the write requests made while builds and searches run: one row of one key
BuildBatches == {<<[key |-> k, vec |-> <<1, 0>>, meta |-> MdEmpty]>> : k \in Keys}

\* a build, a search and a writer, call by call
InitBuild ==
    /\ engine = "indexer"
    /\ fq = NoFilter
    /\ ftab = NoTable
    /\ InitCommon

NextBuild ==
    \/ Tick
    \/ \E batch \in BuildBatches : write_slice(batch)
    \/ BuildStart
    \/ BuildWriteIdmap
    \/ BuildStoreIndex
    \/ BuildUpdateManifest
    \/ BuildClearStaged
    \/ BuildFail
    \/ SearchGetManifest
    \/ SearchLoadIdmap
    \/ SearchLoadBlob

SpecBuild == InitBuild /\ [][NextBuild]_vars

\* two builds and a writer, call by call
NextRace ==
    \/ \E batch \in BuildBatches : write_slice(batch)
    \/ BuildStart
    \/ BuildWriteIdmap
    \/ BuildStoreIndex
    \/ BuildUpdateManifest
    \/ BuildClearStaged
    \/ RivalStart
    \/ RivalStep

SpecRace == InitBuild /\ [][NextRace]_vars

\* one build, a writer and deletes, call by call
NextDelete ==
    \/ \E batch \in BuildBatches : write_slice(batch)
    \/ BuildStart
    \/ BuildWriteIdmap
    \/ BuildStoreIndex
    \/ BuildUpdateManifest
    \/ BuildClearStaged
    \/ \E keys \in KeyLists : DeleteByKeys(keys)

SpecDelete == InitBuild /\ [][NextDelete]_vars

\* the HTTP surfaces over Lance
InitLance ==
    /\ engine = "lance"
    /\ fq = NoFilter
    /\ ftab = NoTable
    /\ InitCommon

NextLance ==
    \/ \E sf \in Surfaces : CreateVectorBucket(sf)
    \/ \E sf \in Surfaces, n \in IndexNames : CreateIndex(sf, n, Dim, {})
    \/ \E sf \in Surfaces, n \in IndexNames :
          \E v \in Batches(LancePayloads \cup LanceBadPayloads) \cup {BigBatch} : PutVectors(sf, n, v)
    \/ \E n \in IndexNames, f \in QueryFilters, path \in {"lance", "manual"} : QueryVectors(n, f, path)

SpecLance == InitLance /\ [][NextLance]_vars

\* several indexes in one bucket
InitNames ==
    /\ engine = "lance"
    /\ fq = NoFilter
    /\ ftab = NoTable
    /\ InitRest
    /\ configs = [n \in IsolationNames |-> NoConfig]
    /\ tables = [t \in {table_path(n) : n \in IsolationNames} |-> NoTable]

NextNames ==
    \/ \E sf \in Surfaces : CreateVectorBucket(sf)
    \/ \E sf \in Surfaces, n \in IsolationNames : CreateIndex(sf, n, Dim, {})
    \/ \E sf \in Surfaces, n \in IsolationNames, v \in BuildBatches : PutVectors(sf, n, v)

SpecNames == InitNames /\ [][NextNames]_vars

\* explicit index builds among the writes of one index
NextIndexBuild ==
    \/ \E sf \in Surfaces : CreateVectorBucket(sf)
    \/ \E sf \in Surfaces, n \in IndexNames : CreateIndex(sf, n, Dim, {})
    \/ \E sf \in Surfaces, n \in IndexNames, v \in OneRowBatches : PutVectors(sf, n, v)
    \/ \E n \in IndexNames, it \in IndexTypes, o \in {"ok", "raises"} : BuildIndexIfNeeded(n, it, o)

SpecIndexBuild == InitLance /\ [][NextIndexBuild]_vars

\* PutVectors requests racing on one index
NextEvolve ==
    \/ \E sf \in Surfaces : CreateVectorBucket(sf)
    \/ \E r \in Requests, n \in IndexNames, v \in EvolveBatches : UpsertOpen(r, n, v)
    \/ \E r \in Requests, n \in IndexNames : UpsertAddColumns(r, n)
    \/ \E r \in Requests, n \in IndexNames : UpsertAdd(r, n)

SpecEvolve == InitLance /\ [][NextEvolve]_vars

NextLife ==
    \/ \E sf \in Surfaces : CreateVectorBucket(sf)
    \/ \E sf \in Surfaces, n \in IndexNames, d \in Dimensions, nf \in NonFilterableSets :
          CreateIndex(sf, n, d, nf)
    \/ \E n \in IndexNames, shadow \in BOOLEAN : DeleteIndex(n, shadow)
    \/ \E sf \in Surfaces, n \in IndexNames, v \in OneRowBatches : PutVectors(sf, n, v)
    \/ \E n \in IndexNames, m \in PageSizes, c \in Cursors : ListVectors(n, m, c)
    \/ \E sf \in Surfaces, n \in IndexNames, q \in QueryVecs, path \in {"lance", "manual"},
          flag \in ReturnFlags : QueryVectorsDistance(sf, n, q, path, flag)

SpecLife == InitLance /\ [][NextLife]_vars

\* the two filter paths on every filter and table of the bounded sets
InitFilter ==
    /\ engine = "filter"
    /\ fq \in Filters
    /\ ftab \in Datasets
    /\ InitCommon

NextFilter == ApplyFilter

SpecFilter == InitFilter /\ [][NextFilter]_vars

\* the translator on one leaf
InitEscape ==
    /\ engine = "escape"
    /\ fq \in EscapeLeaves
    /\ ftab = NoTable
    /\ InitCommon

NextEscape == TranslateFilter

SpecEscape == InitEscape /\ [][NextEscape]_vars

----------------------------------------------------------------------------
(* Properties *)

\* C1: last write wins per key. After a completed build (indexer), or after an
\* add_batch call (IndexManager), get-by-key of every key written and not deleted
\* returns exactly one row, and its vector and metadata are those of the last write
\* of the key.
C1_LastWriteWins ==
    /\ (engine = "indexer" /\ last.op = "build") =>
          \A k \in liveKeys :
              LET got == get_vectors_by_keys(idmap, <<k>>)
              IN /\ Len(got) = 1
                 /\ got[1].Data = lastWrite[k].vec
                 /\ got[1].Metadata = lastWrite[k].meta
    /\ (engine = "manager" /\ last.op \in {"add", "add_raised"}) =>
          \A k \in liveKeys :
              LET got == MgrGet(mgr, k)
              IN /\ got.status = "ok"
                 /\ Len(got.rows) = 1
                 /\ got.rows[1].Data = lastWrite[k].vec
                 /\ got.rows[1].Metadata = lastWrite[k].meta

\* C2: a deleted key is not observable. Right after delete-by-key, with every write
\* built, no get-by-key, list or query result holds a row of a deleted key, and the
\* number of listed rows is the number of distinct keys written and not deleted.
C2_DeletedKeyNotObservable ==
    (engine = "indexer" /\ last.op = "delete" /\ staged = <<>>) =>
        /\ \A k \in last.keys :
              /\ get_vectors_by_keys(idmap, <<k>>) = <<>>
              /\ k \notin ListedKeys(idmap)
              /\ k \notin QueryKeys(manifest, idmap, blobs)
        /\ Len(list_vectors(idmap, NumRows(idmap), 0)) = Cardinality(liveKeys)

\* C3: immediately after every committed build, manifest.vectors is the number of
\* id-map rows whose alive flag is true.
C3_ManifestCountsAlive ==
    (engine = "indexer" /\ last.op = "build") => manifest.vectors = CountAlive(idmap)

C5_WriteReadRoundTrip ==
    (engine = "lance" /\ last.op = "put" /\ last.status = 200 /\ last.ok
        /\ last.configured /\ ~last.mismatch) =>
        \A k \in last.keys :
            LET got == get_vectors(tables[table_path(last.index)], <<k>>)
            IN \E n \in 1..Len(got) :
                  /\ got[n].data = lastWrite[k].vec
                  /\ got[n].metadata = lastWrite[k].meta

\* C6: for every filter tree and every dataset, the rows the translated WHERE clause
\* selects are the rows the in-process Python predicate selects.
C6_PushdownEqualsPostfilter ==
    fres.done => fres.pushdown = fres.postfilter

\* C7: a query filtered by equals on a key that is a typed column of the table (whose
\* rows all have the configured dimension) returns the rows whose value in that column
\* equals the literal.
C7_TypedColumnEquals ==
    (engine = "lance" /\ last.op = "query" /\ last.filter.operator = "equals"
        /\ tables[table_path(last.index)].ctype[last.filter.metadata_key] # NoType
        /\ \A i \in 1..Len(tables[table_path(last.index)].rows) :
               Len(tables[table_path(last.index)].rows[i].vector) = configs[last.index].dimension) =>
        LET tbl == tables[table_path(last.index)]
        IN last.keys = {tbl.rows[i].key :
                          i \in {j \in 1..Len(tbl.rows) :
                                   tbl.rows[j].cols[last.filter.metadata_key] = last.filter.value}}

\* C8: a PutVectors request of more than MAX_BATCH vectors to a created index is
\* rejected with a validation error (400) on either surface, and the number of rows
\* stored is the same after the request as before it.
C8_OversizeBatchRejected ==
    [][(last'.op = "put" /\ last'.bucket /\ last'.configured /\ last'.n > MAX_BATCH) =>
          /\ last'.status = 400
          /\ Len(tables'[table_path(last'.index)].rows) = Len(tables[table_path(last'.index)].rows)
      ]_vars

\* C9: no partial write on dimension mismatch. When a batch holds a vector whose
\* length differs from the configured dimension of the index, the table's rows and
\* its column schema are the same after the call as before it.
C9_NoPartialWriteOnMismatch ==
    [][(last'.op = "put" /\ last'.bucket /\ last'.mismatch) => tables' = tables]_vars

\* C10: a PutVectors (of at most MAX_BATCH vectors) addressed to an index that was
\* never created returns Not-found (404) and creates no table, no config and no rows.
C10_PutToMissingIndexNotFound ==
    [][(last'.op = "put" /\ ~last'.configured /\ last'.n <= MAX_BATCH) =>
          /\ last'.status = 404
          /\ tables' = tables
          /\ configs' = configs
      ]_vars

\* C11: create is idempotent. A CreateIndex for a name that already has a config, with
\* the same dimension, succeeds and leaves config and table (all rows written) as they
\* were; with a differing dimension it answers Conflict (409) and leaves them as they
\* were. A CreateVectorBucket for an existing bucket succeeds and changes nothing.
C11_CreateIdempotent ==
    [][/\ (last'.op = "create_index" /\ last'.existed /\ bucket) =>
             /\ tables' = tables
             /\ configs' = configs
             /\ last'.status = IF last'.dimension = configs[last'.index].dimension THEN 200 ELSE 409
       /\ (last'.op = "create_bucket" /\ last'.existed) =>
             /\ last'.status = 200
             /\ bucket' = bucket /\ tables' = tables /\ configs' = configs
      ]_vars

\* C12: after a DeleteIndex that succeeded, no durable state of the index remains (no
\* config, no table rows), and the config and table of every other index are as before.
C12_DeleteIndexLeavesNothing ==
    [][(last'.op = "delete_index" /\ last'.status = 200) =>
          /\ ~configs'[last'.index].present
          /\ tables'[table_path(last'.index)].rows = <<>>
          /\ \A n \in IndexNames \ {last'.index} :
                 configs'[n] = configs[n] /\ tables'[table_path(n)] = tables[table_path(n)]
      ]_vars

KeyRank(k) == IF k = NoToken THEN 0 ELSE IF k = "a" THEN 1 ELSE 2

ExpectedLiterals(f) ==
    LET path == <<"$.">> \o f.metadata_key
        v == f.value
    IN IF f.operator \in {"in", "not_in"}
       THEN <<path>> \o [i \in 1..Len(v.items) |-> v.items[i].s]
       ELSE IF v.t = "str" THEN <<path, v.s>>
       ELSE <<path>>

\* C15: every leaf is escaped. In the clause emitted for a leaf, the quoted literals an
\* SQL scanner finds are exactly the path of the metadata key and the string values of
\* the leaf, whatever quotes they hold, and the clause does not end inside a literal; a
\* boolean value is emitted as TRUE or FALSE and a number as its digits, unquoted.
C15_LeafIsEscaped ==
    (last.op = "translate") =>
        LET scan == ScanLiterals(fres.text, FALSE, <<>>, <<>>)
            v == fq.value
        IN /\ ~scan.open
           /\ scan.lits = ExpectedLiterals(fq)
           /\ v.t = "bool" => fres.text[Len(fres.text)] = (IF v.b THEN "TRUE" ELSE "FALSE")
           /\ v.t = "int" => fres.text[Len(fres.text)] \in Range(DigitChars)

\* C16: a metadata key declared non-filterable when the index was created is never a
\* column of the table of the index, whatever batches were put since.
C16_NonFilterableNeverColumn ==
    \A n \in IndexNames :
        configs[n].present =>
            configs[n].nonfilterable \cap ColumnNames(tables[table_path(n)]) = {}

\* C17: on both query surfaces the distance answered for a row is the distance the
\* search computed for it, and a distance is answered only when returnDistance is
\* requested (a request that leaves returnDistance out counts as requesting it).
C17_DistanceAsComputed ==
    last.op = "query_distance" =>
        /\ Len(last.vectors) = Len(last.computed)
        /\ \A i \in 1..Len(last.vectors) :
              /\ last.vectors[i].key = last.computed[i].key
              /\ last.vectors[i].distance =
                    (IF last.returnDistance # "false" THEN last.computed[i].distance ELSE NoDistance)

\* every staged object a build listed is still under the staged prefix
ListedInPlace(b, st) == \A i \in 1..Len(b.listed) : \E j \in 1..Len(st) : st[j].ts = b.listed[i].ts

\* C18: in a build the manifest is put after the id map and the backend blob, and staged
\* slices are deleted only after the manifest put; a build that has not put its manifest
\* yet, running or stopped, has left the manifest as it found it and every slice it
\* listed in place.
C18_ManifestLast ==
    [][/\ manifest' # manifest => {"idmap", "blob"} \subseteq build.puts
       /\ ~ListedInPlace(build', staged') => "manifest" \in build.puts
       /\ ((build'.pc > 0 \/ build'.retry) /\ "manifest" \notin build'.puts) =>
             /\ manifest' = build'.man0
             /\ ListedInPlace(build', staged')
      ]_vars

\* a build stopped after its blob put and before its manifest put
C18_Witness ==
    /\ last.op = "build_failed"
    /\ build.puts = {"idmap", "blob"}
    /\ staged # <<>>

\* the manifest, id map and blob of one committed build (or of none)
Snapshot(man, tbl, blob) ==
    IF ~man.present THEN ~tbl.present /\ blob = NoBlob
    ELSE /\ man.vectors = NumRows(tbl)
         /\ blob = [present |-> TRUE, labels |-> BuiltLabels(tbl)]

\* C19: a search whose calls interleave with those of builds that all run to their end
\* uses the manifest, the id map and the blob of one and the same build.
C19_SnapshotRead ==
    (last.op = "search" /\ build.failures = 0) => Snapshot(last.man, last.tbl, last.blob)

\* C20: when a build completes, after earlier attempts that stopped or not, the id map
\* is the id map from before the first of these attempts with the rows of the staged
\* slices appended once.
C20_RebuildAppliesOnce ==
    (last.op = "build_step" /\ last.done) =>
        idmap = _append_to_idmap(build.base, AllStagedRows(build.listed))

\* C21: a build deletes only the slices it processed. Every object that leaves the
\* staged prefix in a step is one the running build listed, with the rows it loaded, so
\* no written row is dropped before a build appended it.
C21_DeletesOnlyProcessed ==
    [][\A j \in 1..Len(staged) :
          (\A i \in 1..Len(staged') : staged'[i].ts # staged[j].ts) =>
              \E i \in 1..Len(build.listed) : build.listed[i] = staged[j]
      ]_vars

\* C22: single builder per index. No two process_new_slices calls are both between
\* their staged listing and their staged deletion, and a call that starts while another
\* is there does not apply slices.
C22_SingleBuilder ==
    ~(build.pc > 0 /\ rival.pc > 0)

\* C29: tombstones are never lost. A row that is not alive in the stored id map is
\* still there and not alive in the id map stored by any later call.
C29_TombstonesKept ==
    [][\A i \in 1..NumRows(idmap) :
          ~idmap.rows[i].alive => (i <= NumRows(idmap') /\ ~idmap'.rows[i].alive)
      ]_vars

\* C23: the id column is dense. In every stored id map the row at position i carries
\* id i (counting from 0), so the lookup by id returns the row that carries the id.
C23_IdsDense ==
    idmap.present =>
        \A i \in 1..NumRows(idmap) :
            /\ idmap.rows[i].id = i - 1
            /\ idmap.rows[i].alive =>
                   LET got == get_vectors_by_ids(idmap, <<idmap.rows[i].id>>)
                   IN Len(got) = 1 /\ got[1].Key = idmap.rows[i].key /\ got[1].Data = idmap.rows[i].vec

\* an id map of two rows, built and then tombstoned in its first row
C23_Witness ==
    /\ last.op = "delete"
    /\ NumRows(idmap) >= 2
    /\ ~idmap.rows[1].alive
    /\ idmap.rows[2].alive

\* C24: racing schema evolution is tolerated. Every PutVectors request whose batch
\* brings a metadata key, alone or while another request brings the same key, ends
\* without a failure and with its rows in the table.
C24_RacingEvolutionTolerated ==
    last.op = "put_done" =>
        /\ last.ok
        /\ \A k \in last.keys :
              \E i \in 1..Len(tables[table_path(last.index)].rows) :
                  tables[table_path(last.index)].rows[i].key = k

C26_BackendFollowsTotal ==
    (last.op = "add" /\ Algorithm = "hybrid") =>
        /\ Len(mgr.vecs) >= HnswThreshold => mgr.backend = "ivfpq"
        /\ mgr.backend = "hnsw" => Len(mgr.vecs) < HnswThreshold

\* C30: the parallel structures of the manager agree after every add_batch and
\* delete_keys, an add_batch that raised included: the id lists, the metadata list,
\* the vector rows and the id counter have one length, and a key has at most one alive
\* id, the one the key map names.
C30_ManagerConsistent ==
    /\ Len(mgr.id_to_key) = mgr.next_id
    /\ Len(mgr.alive) = mgr.next_id
    /\ Len(mgr.meta) = mgr.next_id
    /\ Len(mgr.vecs) = mgr.next_id
    /\ \A k \in Keys : \A i \in 1..Len(mgr.id_to_key) :
          (mgr.id_to_key[i] = k /\ mgr.alive[i]) => mgr.key_to_id[k] = i - 1

\* C27: PutVectors answers 200 with vectorCount = n only when upsert_vectors added all
\* n rows of the batch to the table; a failed upsert_vectors is answered with an error.
C27_SuccessMeansStored ==
    (last.op = "put" /\ last.status = 200) =>
        /\ last.ok
        /\ \A k \in last.keys :
              \E i \in 1..Len(tables[table_path(last.index)].rows) :
                  tables[table_path(last.index)].rows[i].key = k

\* C28: indexes are isolated by name. table_path sends different valid index names of
\* a bucket to different tables, so a write or a CreateIndex on one index leaves the
\* rows seen through every other index as they were.
C28_IndexIsolation ==
    [][\A m \in IsolationNames :
          (last'.op \in {"put", "create_index"} /\ last'.index # m) =>
              tables'[table_path(m)].rows = tables[table_path(m)].rows]_vars

====
